---- MODULE Spec2Model ----
(***************************************************************************)
(* oclgrep: a session of main() (src/src/main.cpp) together with the       *)
(* collaborators it drives: the regex compiler (string_to_graph), the      *)
(* automaton format (serial::graph), the compute engine (oclengine) and    *)
(* the match runner (oclrunner).  main.cpp is translated from its source;  *)
(* the collaborators, whose sources are not part of src/, follow the       *)
(* design document (sections 3 and 4).                                     *)
(*                                                                         *)
(* Code points are integers: 97 = 'a', 98 = 'b', 124 = '|', 40 = '(',      *)
(* 41 = ')'.  Storage indices are 0-based as in the source; At(d, i) reads *)
(* word i of a buffer.                                                     *)
(***************************************************************************)
EXTENDS Integers, Sequences, FiniteSets, TLC

\* ------------------------------------------------------------------ bounds
MaxLen == 3
MaxChunk == 3

\* ----------------------------------------------------------------- helpers
Min(x, y) == IF x < y THEN x ELSE y

At(d, i) == d[i + 1]

RECURSIVE SeqSum(_)
SeqSum(s) == IF s = <<>> THEN 0 ELSE Head(s) + SeqSum(Tail(s))

RECURSIVE Flatten(_)
Flatten(ss) == IF ss = <<>> THEN <<>> ELSE Head(ss) \o Flatten(Tail(ss))

RECURSIVE SortedSeq(_)
SortedSeq(S) ==
    IF S = {} THEN <<>>
    ELSE LET x == CHOOSE y \in S : \A z \in S : y <= z
         IN  <<x>> \o SortedSeq(S \ {x})

Range(s) == {s[i] : i \in DOMAIN s}

\* ------------------------------------------------- reserved state indices
id_begin == 0
id_fail == 1
id_ok == 2

\* ------------------------------------------------------------------ inputs
Alphabet == {97, 98}

Texts == UNION {[1..k -> Alphabet] : k \in 0..MaxLen}

\* "a", "b", "ab", "a|b", "a|ab", "aa|ab", "(a", "a)"
Patterns ==
    { <<97>>, <<98>>, <<97, 98>>, <<97, 124, 98>>, <<97, 124, 97, 98>>,
      <<97, 97, 124, 97, 98>>, <<40, 97>>, <<97, 41>> }

\* ---------------------------------------------------------- regex compiler
NoGraph == [n |-> 0, o |-> 0, data |-> <<>>]

PatternError == [error |-> TRUE, graph |-> NoGraph]

\* Grouping is checked for balance only: a pattern with an unmatched
\* parenthesis is a compile-time failure.
RECURSIVE Depth(_, _)
Depth(p, d) ==
    IF d < 0 THEN d
    ELSE IF p = <<>> THEN d
    ELSE IF Head(p) = 40 THEN Depth(Tail(p), d + 1)
    ELSE IF Head(p) = 41 THEN Depth(Tail(p), d - 1)
    ELSE Depth(Tail(p), d)

Balanced(p) == Depth(p, 0) = 0

\* The alternatives of a pattern: its maximal pieces between '|'.
RECURSIVE Branches(_)
Branches(p) ==
    IF \A i \in DOMAIN p : p[i] # 124 THEN <<p>>
    ELSE LET k == CHOOSE i \in DOMAIN p :
                      p[i] = 124 /\ \A j \in 1..(i - 1) : p[j] # 124
         IN  <<SubSeq(p, 1, k - 1)>> \o Branches(SubSeq(p, k + 1, Len(p)))

\* Thompson-style construction over alternatives of literal chains.  The
\* state reached after p symbols of alternative i is ACCEPT when the
\* alternative is complete and a fresh state otherwise.
StateOf(bs, i, p) ==
    IF p = Len(bs[i]) THEN id_ok
    ELSE 3 + SeqSum([j \in 1..(i - 1) |-> Len(bs[j]) - 1]) + (p - 1)

NodeCount(bs) == 3 + SeqSum([j \in 1..Len(bs) |-> Len(bs[j]) - 1])

\* Targets of state q on symbol c, in alternative order (true branching:
\* several targets for one symbol).
Targets(bs, q, c) ==
    IF q = id_begin
    THEN LET hit == SortedSeq({i \in DOMAIN bs : bs[i][1] = c})
         IN  [k \in 1..Len(hit) |-> StateOf(bs, hit[k], 1)]
    ELSE LET inner == UNION {{<<i, p>> : p \in 1..(Len(bs[i]) - 1)} :
                                 i \in DOMAIN bs}
             hit == {x \in inner : /\ StateOf(bs, x[1], x[2]) = q
                                   /\ bs[x[1]][x[2] + 1] = c}
         IN  IF hit = {} THEN <<>>
             ELSE LET h == CHOOSE x \in hit : TRUE
                  IN  <<StateOf(bs, h[1], h[2] + 1)>>

Symbols(bs) == UNION {Range(bs[i]) : i \in DOMAIN bs}

\* Symbols state q has transitions for, ascending.
SlotSymbols(bs, q) ==
    SortedSeq({c \in Symbols(bs) : Targets(bs, q, c) # <<>>})

\* fan_out: the true maximum branching anywhere in the automaton.
FanOut(bs) ==
    LET sizes == {Len(Targets(bs, q, c)) :
                     q \in 0..(NodeCount(bs) - 1), c \in Symbols(bs)}
    IN  CHOOSE x \in sizes : \A y \in sizes : y <= x

\* One state's transition record: m, then m slots of 1 + o words.
Record(bs, o, q) ==
    LET syms == SlotSymbols(bs, q)
        slot(c) == <<c>> \o [j \in 1..o |->
                       IF j <= Len(Targets(bs, q, c))
                       THEN Targets(bs, q, c)[j] ELSE id_fail]
    IN  <<Len(syms)>> \o Flatten([k \in 1..Len(syms) |-> slot(syms[k])])

serialize(bs) ==
    LET n == NodeCount(bs)
        o == FanOut(bs)
        recs == [q \in 1..n |-> Record(bs, o, q - 1)]
        base == [q \in 1..n |->
                    n + SeqSum([r \in 1..(q - 1) |-> Len(recs[r])])]
    IN  [n |-> n, o |-> o, data |-> base \o Flatten(recs)]

string_to_graph(p) ==
    IF p = <<>> \/ ~Balanced(p) THEN PatternError
    ELSE IF \E i \in DOMAIN Branches(p) : Branches(p)[i] = <<>>
    THEN PatternError
    ELSE [error |-> FALSE, graph |-> serialize(Branches(p))]

\* string_to_graph over the patterns of the model, tabulated once.
CompileTable == [p \in Patterns |-> string_to_graph(p)]

\* ------------------------------------------------- diagnostic dump (main.cpp)
\* The set of storage indices print_graph reads, computed as the loops of
\* the source compute them.  m is read at base_node; a base outside the
\* buffer is an out-of-bounds read whose value is taken as 0 here, the
\* index itself stays in the set.
EntryBase_off(base_value_slot) == base_value_slot + 2

EntryBase(base_value_slot) == base_value_slot + 1

print_graph(g) ==
    LET word(i) == IF i < Len(g.data) THEN At(g.data, i) ELSE 0
        node(i_node) ==
            LET base_node == word(i_node)
                m == word(base_node)
                base_node_body == base_node + 1
                value_slot(i_value_slot) ==
                    LET base_value_slot ==
                            base_node_body + i_value_slot * (1 + g.o)
                        base_slot == EntryBase(base_value_slot)
                    IN  {base_value_slot} \cup
                        {base_slot + i_entry : i_entry \in 0..(g.o - 1)}
            IN  {i_node, base_node} \cup
                UNION {value_slot(k) : k \in 0..(m - 1)}
    IN  UNION {node(i) : i \in 0..(g.n - 1)}

\* ------------------------------------------------------------ match runner
NoRunner == [max_chunk_size |-> 0, dAutomaton |-> NoGraph,
             dText |-> <<>>, dOutput |-> <<>>]

\* Construction uploads the automaton; a zero window size is an invalid
\* configuration and is refused with a caller-facing error.
oclrunner_construct(w, g) ==
    IF w = 0 THEN [error |-> TRUE, runner |-> NoRunner]
    ELSE [error |-> FALSE,
          runner |-> [max_chunk_size |-> w, dAutomaton |-> g,
                      dText |-> <<>>, dOutput |-> <<>>]]

StepTargets_first(g, q, c) ==
    LET base == At(g.data, q)
        m == At(g.data, base)
        ks == {k \in 0..(m - 1) : At(g.data, base + 1 + k * (1 + g.o)) = c}
    IN  {At(g.data, base + 1 + k * (1 + g.o) + 1) : k \in ks}

\* The targets a work-item may move to from state q on symbol c, by the
\* O(1) arithmetic access of the automaton format.
StepTargets(g, q, c) ==
    LET base == At(g.data, q)
        m == At(g.data, base)
        ks == {k \in 0..(m - 1) : At(g.data, base + 1 + k * (1 + g.o)) = c}
    IN  {At(g.data, base + 1 + k * (1 + g.o) + 1 + j) :
            k \in ks, j \in 0..(g.o - 1)}

\* One work-item: walk from state q consuming text[pos], text[pos+1], ...
RECURSIVE Walk(_, _, _, _)
Walk(g, text, q, pos) ==
    IF q = id_ok THEN TRUE
    ELSE IF q = id_fail THEN FALSE
    ELSE IF pos >= Len(text) THEN FALSE
    ELSE \E t \in StepTargets(g, q, At(text, pos)) :
             Walk(g, text, t, pos + 1)

Dispatch_stale(r, chunk) ==
    [s \in 1..Len(chunk) |->
        \/ (s <= Len(r.dOutput) /\ r.dOutput[s])
        \/ Walk(r.dAutomaton, chunk, id_begin, s - 1)]

\* Output flags of one dispatch: a fresh buffer, one slot per start offset.
Dispatch(r, chunk) ==
    [s \in 1..Len(chunk) |-> Walk(r.dAutomaton, chunk, id_begin, s - 1)]

oclrunner_run(r, chunk) ==
    LET out == Dispatch(r, chunk)
        hits == SortedSeq({s \in DOMAIN out : out[s]})
    IN  [runner |-> [r EXCEPT !.dText = chunk, !.dOutput = out],
         result |-> [i \in 1..Len(hits) |-> hits[i] - 1]]

\* ------------------------------------------------------------ main session
VARIABLES
    utf8,             \* the environment's locale is UTF-8
    regex_utf32,      \* the pattern, decoded
    file,             \* what readfile finds: whether it exists, its content
    max_chunk_size,   \* --max-chunk-size
    vm,               \* option flags: help, print_graph, no_output
    pc,               \* position of main
    eng,              \* compute engine: "none" or "ready"
    graph,            \* the compiled automaton
    graphReads,       \* storage indices read by the diagnostic dump
    runner,           \* the match runner and its device buffers
    uploads,          \* automaton uploads to the device so far
    fcontent_utf32,   \* the loaded input text
    offset,           \* loop variable of the chunk loop
    calls,            \* the runner.run calls made: base, window, result
    stdout,           \* positions printed
    err,              \* "none", "user_error" or "exception"
    exit              \* "running", "1", "EXIT_FAILURE" or "EXIT_SUCCESS"

inputs == <<utf8, regex_utf32, file, max_chunk_size, vm>>

vars == <<utf8, regex_utf32, file, max_chunk_size, vm, pc, eng, graph,
          graphReads, runner, uploads, fcontent_utf32, offset, calls,
          stdout, err, exit>>

NoFile == [exists |-> FALSE, content |-> <<>>]

Init ==
    /\ utf8 \in BOOLEAN
    /\ regex_utf32 \in Patterns
    /\ file \in {NoFile} \cup [exists : {TRUE}, content : Texts]
    /\ max_chunk_size \in 0..MaxChunk
    /\ vm \in [help : BOOLEAN, print_graph : BOOLEAN, no_output : BOOLEAN]
    /\ pc = "locale"
    /\ eng = "none"
    /\ graph = NoGraph
    /\ graphReads = {}
    /\ runner = NoRunner
    /\ uploads = 0
    /\ fcontent_utf32 = <<>>
    /\ offset = 0
    /\ calls = <<>>
    /\ stdout = <<>>
    /\ err = "none"
    /\ exit = "running"

Raise_success(kind) ==
    /\ pc' = "done"
    /\ err' = kind
    /\ exit' = "EXIT_SUCCESS"

\* A throw inside the try block: the matching handler reports the cause
\* and main returns EXIT_FAILURE.
Raise(kind) ==
    /\ pc' = "done"
    /\ err' = kind
    /\ exit' = "EXIT_FAILURE"

\* The locale check.
CheckLocale ==
    /\ pc = "locale"
    /\ IF utf8
       THEN pc' = "options" /\ UNCHANGED <<err, exit>>
       ELSE Raise("user_error")
    /\ UNCHANGED <<inputs, eng, graph, graphReads, runner, uploads,
                   fcontent_utf32, offset, calls, stdout>>

\* Option handling: --help prints the usage and returns 1.
ParseOptions ==
    /\ pc = "options"
    /\ IF vm.help
       THEN pc' = "done" /\ exit' = "1"
       ELSE pc' = "engine" /\ UNCHANGED exit
    /\ UNCHANGED <<inputs, eng, graph, graphReads, runner, uploads,
                   fcontent_utf32, offset, calls, stdout, err>>

\* set up OpenCL engine
SetUpEngine ==
    /\ pc = "engine"
    /\ eng' = "ready"
    /\ pc' = "regex"
    /\ UNCHANGED <<inputs, graph, graphReads, runner, uploads,
                   fcontent_utf32, offset, calls, stdout, err, exit>>

\* No suitable device, or the kernel does not build.
SetUpEngineFails ==
    /\ pc = "engine"
    /\ Raise("exception")
    /\ UNCHANGED <<inputs, eng, graph, graphReads, runner, uploads,
                   fcontent_utf32, offset, calls, stdout>>

\* parse regex to graph
ParseRegex ==
    /\ pc = "regex"
    /\ LET c == CompileTable[regex_utf32]
       IN  IF c.error
           THEN Raise("user_error") /\ UNCHANGED graph
           ELSE /\ graph' = c.graph
                /\ pc' = IF vm.print_graph THEN "print_graph" ELSE "runner"
                /\ UNCHANGED <<err, exit>>
    /\ UNCHANGED <<inputs, eng, graphReads, runner, uploads,
                   fcontent_utf32, offset, calls, stdout>>

PrintGraph ==
    /\ pc = "print_graph"
    /\ graphReads' = print_graph(graph)
    /\ pc' = "runner"
    /\ UNCHANGED <<inputs, eng, graph, runner, uploads, fcontent_utf32,
                   offset, calls, stdout, err, exit>>

\* set up OpenCL runner
SetUpRunner ==
    /\ pc = "runner"
    /\ LET c == oclrunner_construct(max_chunk_size, graph)
       IN  IF c.error
           THEN Raise("user_error") /\ UNCHANGED <<runner, uploads>>
           ELSE /\ runner' = c.runner
                /\ uploads' = uploads + 1
                /\ pc' = "load"
                /\ UNCHANGED <<err, exit>>
    /\ UNCHANGED <<inputs, eng, graph, graphReads, fcontent_utf32, offset,
                   calls, stdout>>

\* load file
LoadFile ==
    /\ pc = "load"
    /\ IF ~file.exists
       THEN Raise("user_error") /\ UNCHANGED fcontent_utf32
       ELSE IF file.content = <<>>
       THEN Raise("user_error") /\ UNCHANGED fcontent_utf32
       ELSE /\ fcontent_utf32' = file.content
            /\ pc' = "loop"
            /\ UNCHANGED <<err, exit>>
    /\ UNCHANGED <<inputs, eng, graph, graphReads, runner, uploads, offset,
                   calls, stdout>>

\* The pieces of the chunk loop.
ChunkEnd_rest(off, w, size) == size

ChunkEnd(off, w, size) == Min(off + w, size)

NextOffset_skip(off, w) == off + w + 1

NextOffset(off, w) == off + w

Position_local(off, idx) == idx

Position(off, idx) == off + idx

LoopRunner_rebuilt ==
    [runner |-> oclrunner_construct(max_chunk_size, graph).runner,
     uploads |-> uploads + 1]

\* The runner an iteration of the loop calls, with the upload count it
\* leaves: the one built before the loop, no further upload.
LoopRunner == [runner |-> runner, uploads |-> uploads]

\* One iteration of the chunk loop.
ChunkStep ==
    /\ pc = "loop"
    /\ offset < Len(fcontent_utf32)
    /\ LET end == ChunkEnd(offset, max_chunk_size, Len(fcontent_utf32))
           chunk == SubSeq(fcontent_utf32, offset + 1, end)
           out == oclrunner_run(LoopRunner.runner, chunk)
       IN  /\ runner' = out.runner
           /\ uploads' = LoopRunner.uploads
           /\ calls' = Append(calls, [base |-> offset, window |-> chunk,
                                      result |-> out.result])
           /\ stdout' = IF vm.no_output THEN stdout
                        ELSE stdout \o [i \in 1..Len(out.result) |->
                                           Position(offset, out.result[i])]
    /\ offset' = NextOffset(offset, max_chunk_size)
    /\ UNCHANGED <<inputs, pc, eng, graph, graphReads, fcontent_utf32,
                   err, exit>>

\* A device-side failure during run: fatal to the session.
ChunkRunFails ==
    /\ pc = "loop"
    /\ offset < Len(fcontent_utf32)
    /\ Raise("exception")
    /\ UNCHANGED <<inputs, eng, graph, graphReads, runner, uploads,
                   fcontent_utf32, offset, calls, stdout>>

LoopExit ==
    /\ pc = "loop"
    /\ ~(offset < Len(fcontent_utf32))
    /\ pc' = "done"
    /\ exit' = "EXIT_SUCCESS"
    /\ UNCHANGED <<inputs, eng, graph, graphReads, runner, uploads,
                   fcontent_utf32, offset, calls, stdout, err>>

Next ==
    \/ CheckLocale
    \/ ParseOptions
    \/ SetUpEngine
    \/ SetUpEngineFails
    \/ ParseRegex
    \/ PrintGraph
    \/ SetUpRunner
    \/ LoadFile
    \/ ChunkStep
    \/ ChunkRunFails
    \/ LoopExit

Spec == Init /\ [][Next]_vars

\* main is a single sequential thread: it keeps taking steps until it
\* returns.
FairSpec == Spec /\ WF_vars(Next)

\* ================================================================ claims
Windows == [i \in DOMAIN calls |-> calls[i].window]

Ceil(x, y) == (x + y - 1) \div y

StrictlyAscending(q) == \A k \in 1..(Len(q) - 1) : q[k] < q[k + 1]

\* C1: the windows passed to runner.run are consecutive and do not
\* overlap, each has between 1 and max_chunk_size code points, and once
\* the loop has completed their concatenation is the whole input text.
C1_Chunking ==
    /\ \A i \in DOMAIN calls :
          /\ Len(calls[i].window) \in 1..max_chunk_size
          /\ calls[i].base =
                IF i = 1 THEN 0
                ELSE calls[i - 1].base + Len(calls[i - 1].window)
          /\ calls[i].window =
                SubSeq(fcontent_utf32, calls[i].base + 1,
                       calls[i].base + Len(calls[i].window))
    /\ Flatten(Windows) = SubSeq(fcontent_utf32, 1, Len(Flatten(Windows)))
    /\ exit = "EXIT_SUCCESS" => Flatten(Windows) = fcontent_utf32

C1_Witness ==
    /\ exit = "EXIT_SUCCESS"
    /\ Len(calls) = 2
    /\ Len(calls[2].window) < max_chunk_size

\* C2: when string_to_graph fails, no compute engine has been initialised
\* before the error is raised.
CompileFailed ==
    /\ pc = "done"
    /\ err = "user_error"
    /\ utf8
    /\ string_to_graph(regex_utf32).error

C2_NoEngineBeforeCompile == CompileFailed => eng = "none"

\* A walk of the logical (unserialised) automaton of the alternatives bs.
RECURSIVE Accepts(_, _, _, _)
Accepts(bs, text, q, pos) ==
    IF q = id_ok THEN TRUE
    ELSE IF q = id_fail THEN FALSE
    ELSE IF pos >= Len(text) THEN FALSE
    ELSE \E t \in Range(Targets(bs, q, At(text, pos))) :
             Accepts(bs, text, t, pos + 1)

ResultIs(p, w, res) ==
    \A i \in DOMAIN calls :
        (regex_utf32 = p /\ calls[i].window = w) => calls[i].result = res

\* C3: run(window) returns, in ascending order, exactly the start offsets
\* from which some walk of the automaton reaches ACCEPT inside the window;
\* "a" gives {0} on "a", {} on "b", {0,1} on "aa"; "a|b" gives {0,1} on "ab".
C3_RunResult ==
    /\ \A i \in DOMAIN calls :
          calls[i].result =
             SortedSeq({s \in 0..(Len(calls[i].window) - 1) :
                           Accepts(Branches(regex_utf32), calls[i].window,
                                   id_begin, s)})
    /\ ResultIs(<<97>>, <<97>>, <<0>>)
    /\ ResultIs(<<97>>, <<98>>, <<>>)
    /\ ResultIs(<<97>>, <<97, 97>>, <<0, 1>>)
    /\ ResultIs(<<97, 124, 98>>, <<97, 98>>, <<0, 1>>)

C3_Witness ==
    /\ regex_utf32 = <<97, 97, 124, 97, 98>>
    /\ \E i \in DOMAIN calls :
          calls[i].window = <<97, 97, 98>> /\ calls[i].result = <<0, 1>>

\* C4: what is printed is, call after call, each window's base offset plus
\* the local offsets run returned, and the printed positions are strictly
\* ascending over the session.
C4_Positions ==
    /\ stdout =
          IF vm.no_output THEN <<>>
          ELSE Flatten([i \in DOMAIN calls |->
                   [j \in DOMAIN calls[i].result |->
                       calls[i].base + calls[i].result[j]]])
    /\ StrictlyAscending(stdout)

C4_Witness ==
    /\ Len(calls) >= 2
    /\ Len(stdout) >= 2
    /\ calls[2].result # <<>>
    /\ calls[1].result # <<>>

\* The alternatives of p one of which is read off the window at s, whole.
MatchesAt(p, window, s) ==
    \E i \in DOMAIN Branches(p) :
        /\ s + Len(Branches(p)[i]) <= Len(window)
        /\ SubSeq(window, s + 1, s + Len(Branches(p)[i])) = Branches(p)[i]

\* C5: a start offset is reported only if its match completes inside the
\* same window; pattern "ab" on input "ab" with max_chunk_size 1 sees only
\* 1-element windows and prints nothing.
C5_NoCrossWindowMatch ==
    /\ \A i \in DOMAIN calls : \A j \in DOMAIN calls[i].result :
          MatchesAt(regex_utf32, calls[i].window, calls[i].result[j])
    /\ (/\ regex_utf32 = <<97, 98>>
        /\ fcontent_utf32 = <<97, 98>>
        /\ max_chunk_size = 1)
       => /\ stdout = <<>>
          /\ \A i \in DOMAIN calls : Len(calls[i].window) = 1

C5_Witness ==
    /\ regex_utf32 = <<97, 98>>
    /\ fcontent_utf32 = <<97, 98>>
    /\ max_chunk_size = 1
    /\ ~vm.no_output
    /\ exit = "EXIT_SUCCESS"
    /\ Len(calls) = 2
    /\ stdout = <<>>

RecordBase(g, i) == At(g.data, i)

RecordM(g, i) == At(g.data, RecordBase(g, i))

RecordEnd(g, i) == RecordBase(g, i) + 1 + RecordM(g, i) * (1 + g.o)

WellFormed(g) ==
    /\ g.n >= 3
    /\ Len(g.data) >= g.n
    /\ RecordBase(g, 0) = g.n
    /\ \A i \in 0..(g.n - 1) :
          /\ RecordBase(g, i) < Len(g.data)
          /\ RecordEnd(g, i) =
                IF i = g.n - 1 THEN Len(g.data) ELSE RecordBase(g, i + 1)
          /\ \A k \in 0..(RecordM(g, i) - 1), j \in 0..(g.o - 1) :
                At(g.data, RecordBase(g, i) + 1 + k * (1 + g.o) + 1 + j)
                    < g.n

InStorage(g, reads) == reads \subseteq 0..(Len(g.data) - 1)

\* C8 as stated: every target index is < n, every record occupies exactly
\* 1 + m*(1+o) words with m <= o, and print_graph reads inside storage.
C8_Original ==
    graph # NoGraph =>
        /\ WellFormed(graph)
        /\ \A i \in 0..(graph.n - 1) : RecordM(graph, i) <= graph.o
        /\ InStorage(graph, print_graph(graph))
        /\ InStorage(graph, graphReads)

\* C8 amended: every target index is < n, every record occupies exactly
\* 1 + m*(1+o) words (m is not bounded by o), and print_graph reads
\* inside storage.
C8_Layout ==
    graph # NoGraph =>
        /\ WellFormed(graph)
        /\ InStorage(graph, print_graph(graph))
        /\ InStorage(graph, graphReads)

C8_Witness ==
    /\ graph # NoGraph
    /\ graphReads # {}
    /\ graphReads = print_graph(graph)
    /\ RecordM(graph, id_begin) > graph.o

\* C9: the automaton is uploaded once, when the runner is constructed and
\* before the first run; every run call is served by that runner, whose
\* device copy of the automaton stays the compiled one.
C9_SingleUpload ==
    /\ uploads <= 1
    /\ calls # <<>> => uploads = 1
    /\ runner # NoRunner =>
          /\ uploads = 1
          /\ runner.dAutomaton = graph
          /\ graph = string_to_graph(regex_utf32).graph

C9_Witness ==
    /\ Len(calls) >= 2
    /\ uploads = 1
    /\ exit = "EXIT_SUCCESS"

\* C10: main returns, and when it returns EXIT_SUCCESS the chunk loop has
\* made exactly ceil(L / max_chunk_size) run calls.
C10_Terminates ==
    /\ <>(pc = "done")
    /\ [](exit = "EXIT_SUCCESS" =>
            Len(calls) = Ceil(Len(fcontent_utf32), max_chunk_size))

C10_Witness ==
    /\ exit = "EXIT_SUCCESS"
    /\ max_chunk_size = 2
    /\ Len(fcontent_utf32) = 3
    /\ Len(calls) = 2

====
